---- MODULE Spec2Model ----
(***************************************************************************)
(* A model of plant-care-tracker (src/main.py): the JSON store with its     *)
(* temp-file / backup / atomic-replace write sequence and its recovery on   *)
(* load, the interactive operations of the main loop that change the plant  *)
(* list, and the history and reminder views.                                *)
(*                                                                          *)
(* JSON strings are sequences of text chunks (<<"f">>, <<"1","T","9">>), a  *)
(* Python None is the empty tuple and any other optional value v is <<v>>.  *)
(* A file is [exists, bytes], bytes being the token sequence json.dump      *)
(* writes (whitespace left out).  A plant dict carries the extra field id,  *)
(* which stands for the identity of the Python object and is never written  *)
(* to disk.                                                                 *)
(***************************************************************************)
EXTENDS Integers, Sequences, FiniteSets, TLC

VARIABLES
    plants,       \* main(): the list of plant dicts
    sel,          \* id of the plant a handler holds a reference to (0: none)
    name,         \* add_plant: the accepted name
    pc,           \* where the process is
    ret,          \* the caller save_plants returns to
    arg,          \* save_plants: its parameter plants
    skip_backup,  \* save_plants: its parameter skip_backup
    primary,      \* plants.json
    backup,       \* plants.json.bak
    tmp,          \* plants.json.tmp
    out,          \* the last message printed (or the last call that returned)
    pre,          \* history: the files when load_plants / save_plants was entered
    bakFailed,    \* history: an access to the backup raised in this load/save
    ops,          \* history: how many changes the user has made so far
    faults,       \* history: how many I/O calls have raised so far
    undo,         \* history: <<c>>, c the contents of the list before the
                  \* latest add, while that add is the latest change;
                  \* <<c, "removed">> once the next change has removed the
                  \* plant that add created
    before,       \* history: the list when the menu was last printed
    unsaved,      \* history: the changes made since save_plants was last called
    shown         \* the view show_history / show_reminders printed last, with
                  \* the answers the user gave to its prompts

vars == <<plants, sel, name, pc, ret, arg, skip_backup, primary, backup, tmp,
          out, pre, bakFailed, ops, faults, undo, before, unsaved, shown>>

----------------------------------------------------------------------------
(* Bounds of the model *)

\* a run has at most MaxEvents events: a change the user makes (a plant added,
\* removed, edited or marked) or a call of the operating system that fails;
\* once they have happened the user opens no further dialogue
MaxEvents == 2

\* the latest day a date text held by a plant names
MaxDay == 10

\* the longest history of a plant the views are tried on
MaxHistory == 3

----------------------------------------------------------------------------
(* Values *)

None == <<>>
Some(v) == <<v>>

Watered == <<"watered">>
Fertilized == <<"fertilized">>

\* datetime.isoformat(timespec="minutes") and date.isoformat() as chunked text
DateTimeStr(d, t) == <<ToString(d), "T", ToString(t)>>
DateStr(d) == <<ToString(d)>>

\* the clock of the run: datetime.now() and date.today()
Today == 2
Now == 9

\* the dates the user may type to backdate an action
Days == {1}

\* str.strip(): leading and trailing blanks removed
RECURSIVE LStrip(_)
LStrip(s) == IF s # <<>> /\ Head(s) = " " THEN LStrip(Tail(s)) ELSE s

RECURSIVE RStrip(_)
RStrip(s) ==
    IF s # <<>> /\ s[Len(s)] = " " THEN RStrip(SubSeq(s, 1, Len(s) - 1)) ELSE s

Strip(s) == RStrip(LStrip(s))

LowerChar(c) ==
    CASE c = "F" -> "f"
      [] c = "I" -> "i"
      [] OTHER -> c

\* str.lower()
Lower(s) == [i \in DOMAIN s |-> LowerChar(s[i])]

\* what the user may type at a name prompt
RawNames == {<<>>, <<" ">>, <<"f">>, <<"F">>, <<"i">>, <<"m", " ">>}

\* what the user may type at the prompts for numbers
IntInputs == {0, 3}
HourInputs == {8, 24}
NoteInputs == {<<" ">>, <<"n">>}

----------------------------------------------------------------------------
(* json.dump: the tokens of the document *)

P(c) == <<c>>
Str(s) == <<"str", s>>
Num(n) == <<"num", n>>
Null == <<"null">>

DumpOptInt(x) == IF x = None THEN <<Null>> ELSE <<Num(x[1])>>

\* None written as the empty string
DumpNoneAsText(x) == IF x = None THEN <<Str(<<>>)>> ELSE <<Str(x[1])>>

DumpOptStr(x) == IF x = None THEN <<Null>> ELSE <<Str(x[1])>>

Key(k) == <<Str(<<k>>), P(":")>>

RECURSIVE Join(_)
\* the items of a list, separated by commas
Join(items) ==
    IF items = <<>> THEN <<>>
    ELSE IF Len(items) = 1 THEN items[1]
    ELSE items[1] \o <<P(",")>> \o Join(Tail(items))

DumpEntry(e) ==
    <<P("{")>> \o Key("action") \o <<Str(e.action)>> \o <<P(",")>>
        \o Key("date") \o <<Str(e.date)>> \o <<P(",")>>
        \o Key("notes") \o DumpOptStr(e.notes) \o <<P("}")>>

DumpList(items) == <<P("[")>> \o Join(items) \o <<P("]")>>

DumpPlant(p) ==
    <<P("{")>> \o Key("name") \o <<Str(p.name)>> \o <<P(",")>>
        \o Key("watering_interval") \o <<Num(p.watering_interval)>> \o <<P(",")>>
        \o Key("watering_hour") \o DumpOptInt(p.watering_hour) \o <<P(",")>>
        \o Key("fertilizing_interval") \o DumpOptInt(p.fertilizing_interval)
        \o <<P(",")>>
        \o Key("last_watered") \o DumpOptStr(p.last_watered) \o <<P(",")>>
        \o Key("last_fertilized") \o DumpOptStr(p.last_fertilized) \o <<P(",")>>
        \o Key("history")
        \o DumpList([i \in DOMAIN p.history |-> DumpEntry(p.history[i])])
        \o <<P("}")>>

Dump(ps) == DumpList([i \in DOMAIN ps |-> DumpPlant(ps[i])])

----------------------------------------------------------------------------
(* json.load: a parse result is [ok, val, pos], pos the next token to read *)

Bad == [ok |-> FALSE, val |-> <<>>, pos |-> 0]
Good(v, i) == [ok |-> TRUE, val |-> v, pos |-> i]

Is(toks, i, t) == i \in 1..Len(toks) /\ toks[i] = t

IsKind(toks, i, k) == i \in 1..Len(toks) /\ toks[i][1] = k

\* "key": at position i
IsKey(toks, i, k) == Is(toks, i, Str(<<k>>)) /\ Is(toks, i + 1, P(":"))

ParseStr(toks, i) ==
    IF IsKind(toks, i, "str") THEN Good(toks[i][2], i + 1) ELSE Bad

ParseNum(toks, i) ==
    IF IsKind(toks, i, "num") THEN Good(toks[i][2], i + 1) ELSE Bad

ParseOptStr(toks, i) ==
    IF Is(toks, i, Null) THEN Good(None, i + 1)
    ELSE IF IsKind(toks, i, "str") THEN Good(Some(toks[i][2]), i + 1) ELSE Bad

ParseOptInt(toks, i) ==
    IF Is(toks, i, Null) THEN Good(None, i + 1)
    ELSE IF IsKind(toks, i, "num") THEN Good(Some(toks[i][2]), i + 1) ELSE Bad

\* , "key": value   (or, with first, without the comma)
Member(toks, i, first, k) ==
    IF first THEN (IF IsKey(toks, i, k) THEN i + 2 ELSE 0)
    ELSE IF Is(toks, i, P(",")) /\ IsKey(toks, i + 1, k) THEN i + 3 ELSE 0

\* the members of a plant dict and of a history entry, in the order json.dump
\* writes them, each with the kind of its value
PlantFields ==
    <<<<"name", "str">>, <<"watering_interval", "num">>,
      <<"watering_hour", "optnum">>, <<"fertilizing_interval", "optnum">>,
      <<"last_watered", "optstr">>, <<"last_fertilized", "optstr">>,
      <<"history", "entries">>>>

EntryFields == <<<<"action", "str">>, <<"date", "str">>, <<"notes", "optstr">>>>

RECURSIVE ParseList(_, _, _, _)

\* the value at position i, which is to be of the kind given
ParseValue(toks, i, kind) ==
    CASE kind = "str" -> ParseStr(toks, i)
      [] kind = "num" -> ParseNum(toks, i)
      [] kind = "optstr" -> ParseOptStr(toks, i)
      [] kind = "optnum" -> ParseOptInt(toks, i)
      [] kind = "entries" ->
            IF Is(toks, i, P("[")) THEN ParseList(toks, i + 1, <<>>, "entry")
            ELSE Bad

RECURSIVE ParseMembers(_, _, _, _)

\* a member was read: the members after it
AfterMember(toks, r, fields, acc) ==
    IF r.ok THEN ParseMembers(toks, r.pos, Tail(fields), Append(acc, r.val))
    ELSE Bad

\* the members named by fields, then "}"; acc the values read so far
ParseMembers(toks, i, fields, acc) ==
    IF fields = <<>>
    THEN (IF Is(toks, i, P("}")) THEN Good(acc, i + 1) ELSE Bad)
    ELSE AfterMember(toks,
             ParseValue(toks, Member(toks, i, acc = <<>>, fields[1][1]),
                        fields[1][2]),
             fields, acc)

\* { members }: val is the tuple of the members' values
ParseObject(toks, i, fields) ==
    IF Is(toks, i, P("{")) THEN ParseMembers(toks, i + 1, fields, <<>>) ELSE Bad

EntryOf(o) ==
    IF o.ok
    THEN Good([action |-> o.val[1], date |-> o.val[2], notes |-> o.val[3]],
              o.pos)
    ELSE Bad

ParseEntry(toks, i) == EntryOf(ParseObject(toks, i, EntryFields))

\* each dict json.load builds is a new object: id
PlantOf(o, id) ==
    IF o.ok
    THEN Good([id |-> id,
               name |-> o.val[1],
               watering_interval |-> o.val[2],
               watering_hour |-> o.val[3],
               fertilizing_interval |-> o.val[4],
               last_watered |-> o.val[5],
               last_fertilized |-> o.val[6],
               history |-> o.val[7]], o.pos)
    ELSE Bad

ParsePlant(toks, i, id) == PlantOf(ParseObject(toks, i, PlantFields), id)

\* an item of a list was read: "]" or "," and the items after it
AfterItem(toks, it, acc, what) ==
    IF ~it.ok THEN Bad
    ELSE IF Is(toks, it.pos, P("]")) THEN Good(Append(acc, it.val), it.pos + 1)
    ELSE IF Is(toks, it.pos, P(","))
         THEN ParseList(toks, it.pos + 1, Append(acc, it.val), what)
    ELSE Bad

\* the items of a list after "[" (plants of the document, or entries of a
\* history), acc the items read so far
ParseList(toks, i, acc, what) ==
    IF Is(toks, i, P("]")) /\ acc = <<>> THEN Good(acc, i + 1)
    ELSE AfterItem(toks,
             IF what = "plant" THEN ParsePlant(toks, i, Len(acc) + 1)
             ELSE ParseEntry(toks, i),
             acc, what)

\* the document ends where the list ends
WholeDocument(toks, r) == IF r.ok /\ r.pos = Len(toks) + 1 THEN r ELSE Bad

\* json.load of a whole document: ok is FALSE where it raises JSONDecodeError
Parse(toks) ==
    IF Is(toks, 1, P("["))
    THEN WholeDocument(toks, ParseList(toks, 2, <<>>, "plant"))
    ELSE Bad

----------------------------------------------------------------------------
(* Files *)

NoFile == [exists |-> FALSE, bytes |-> <<>>]
File(b) == [exists |-> TRUE, bytes |-> b]

\* what an interrupted write of b may leave behind: a part of it (none of it,
\* when b is a single token); no proper part of a document is a document
Partial(b) == {SubSeq(b, 1, Len(b) \div 2)}

\* the plant dict without the identity of the object: what == compares
Content(p) ==
    [name |-> p.name,
     watering_interval |-> p.watering_interval,
     watering_hour |-> p.watering_hour,
     fertilizing_interval |-> p.fertilizing_interval,
     last_watered |-> p.last_watered,
     last_fertilized |-> p.last_fertilized,
     history |-> p.history]

Contents(ps) == [i \in DOMAIN ps |-> Content(ps[i])]

\* the plants a process may find on disk when it starts
Fern ==
    [id |-> 1, name |-> <<"f">>, watering_interval |-> 7, watering_hour |-> None,
     fertilizing_interval |-> None, last_watered |-> None,
     last_fertilized |-> None, history |-> <<>>]

Ivy ==
    [id |-> 2, name |-> <<"i">>, watering_interval |-> 1,
     watering_hour |-> Some(8), fertilizing_interval |-> Some(30),
     last_watered |-> Some(DateTimeStr(1, 9)),
     last_fertilized |-> Some(DateStr(1)),
     history |-> <<[action |-> Fertilized, date |-> DateStr(1),
                    notes |-> Some(<<"n">>)]>>]

\* a file that holds no document (here: an empty file)
Corrupt == File(<<>>)

\* <<plants.json, plants.json.bak>> as earlier runs, or damage to the disk, may
\* have left them
InitDisks ==
    {<<NoFile, NoFile>>,
     <<File(Dump(<<Fern>>)), NoFile>>,
     <<File(Dump(<<Fern, Ivy>>)), File(Dump(<<Fern>>))>>,
     <<File(Dump(<<Fern, Ivy>>)), Corrupt>>,
     <<NoFile, File(Dump(<<Fern>>))>>,
     <<Corrupt, File(Dump(<<Fern, Ivy>>))>>,
     <<Corrupt, Corrupt>>,
     <<Corrupt, NoFile>>}

\* no view has been printed since the menu
NoView == [view |-> "none", choice |-> 0, filter |-> "", today |-> 0,
           blocks |-> <<>>]

----------------------------------------------------------------------------
(* The state when the process starts *)

Init ==
    /\ plants = <<>>
    /\ sel = 0
    /\ name = <<>>
    /\ pc = "start"
    /\ ret = "none"
    /\ arg = <<>>
    /\ skip_backup = FALSE
    /\ \E d \in InitDisks : primary = d[1] /\ backup = d[2]
    /\ tmp = NoFile
    /\ out = "none"
    /\ pre = [primary |-> primary, backup |-> backup]
    /\ bakFailed = FALSE
    /\ ops = 0
    /\ faults = 0
    /\ undo = None
    /\ before = <<>>
    /\ unsaved = 0
    /\ shown = NoView

\* the events of the run so far leave room for one more
MayChange == ops + faults < MaxEvents
MayFail == ops + faults < MaxEvents

\* the process has been stopped or has run to its end: its memory is gone
Dead ==
    /\ plants' = <<>>
    /\ sel' = 0
    /\ name' = <<>>
    /\ ret' = "none"
    /\ arg' = <<>>
    /\ skip_backup' = FALSE
    /\ undo' = None
    /\ before' = <<>>
    /\ unsaved' = 0
    /\ shown' = NoView

----------------------------------------------------------------------------
(* save_plants, step by step *)

\* the call save_plants(ps, skip_backup=skip) made by caller r
EnterSave(ps, skip, r) ==
    /\ arg' = ps
    /\ skip_backup' = skip
    /\ ret' = r
    /\ pc' = "save_write"
    /\ pre' = [primary |-> primary, backup |-> backup]
    /\ bakFailed' = FALSE
    /\ unsaved' = 0

\* where save_plants returns to, and what its caller does then: load_plants
\* returns data (line 26), remove_plant asks again (line 274), the others print
\* their message, if any, and return to main
ReturnFromSave ==
    CASE ret = "repair" ->
            /\ plants' = arg
            /\ pc' = "returned"
            /\ out' = "loaded from backup"
      [] ret = "remove_loop" ->
            /\ pc' = "remove_confirm"
            /\ out' = "removed"
            /\ UNCHANGED plants
      [] OTHER ->
            /\ pc' = "returned"
            /\ out' = ret
            /\ UNCHANGED plants

\* an exception travels up the stack: the objects of the process are as the
\* handlers left them
Unwinding ==
    UNCHANGED <<plants, sel, name, ret, arg, skip_backup, undo, before,
                unsaved, shown>>

\* an exception leaves save_plants: load_plants catches it (line 27) and returns
\* [], no other caller catches it and the process ends with a traceback
RaiseFromSave ==
    IF ret = "repair"
    THEN /\ plants' = <<>>
         /\ pc' = "returned"
         /\ out' = "starting fresh"
         /\ UNCHANGED <<sel, name, ret, arg, skip_backup, undo, before,
                        unsaved, shown>>
    ELSE /\ pc' = "raised"
         /\ out' = "traceback"
         /\ Unwinding

\* a save that writes the document over plants.json itself
SaveWriteInPlace ==
    /\ pc = "save_write"
    /\ primary' = File(Dump(arg))
    /\ pc' = "save_backup"
    /\ UNCHANGED <<plants, sel, name, ret, arg, skip_backup, backup, tmp, out,
                   pre, bakFailed, ops, faults, undo>>
    /\ UNCHANGED <<before, unsaved, shown>>

\* lines 37-40: the temp file is written and forced to disk
SaveWriteTmp ==
    /\ pc = "save_write"
    /\ tmp' = File(Dump(arg))
    /\ pc' = "save_backup"
    /\ UNCHANGED <<plants, sel, name, ret, arg, skip_backup, primary, backup,
                   out, pre, bakFailed, ops, faults,
                   undo>>
    /\ UNCHANGED <<before, unsaved, shown>>

\* lines 37-40 raise: open fails, the write fails part way or fsync fails
SaveWriteTmpFails ==
    /\ pc = "save_write"
    /\ MayFail
    /\ faults' = faults + 1
    /\ \E t \in {tmp, File(Dump(arg))} \cup {File(b) : b \in Partial(Dump(arg))} :
          tmp' = t
    /\ RaiseFromSave
    /\ UNCHANGED <<primary, backup, pre, bakFailed, ops>>

\* line 48
BackupWanted == ~skip_backup /\ primary.exists

\* a backup made of the document just written
CopyOfTmp == File(tmp.bytes)

\* lines 50-51: the bytes of the primary as the new backup
CopyToBackup == File(primary.bytes)

SaveBackup ==
    /\ pc = "save_backup"
    /\ BackupWanted
    /\ backup' = CopyToBackup
    /\ pc' = "save_replace"
    /\ UNCHANGED <<plants, sel, name, ret, arg, skip_backup, primary, tmp, out,
                   pre, bakFailed, ops, faults,
                   undo>>
    /\ UNCHANGED <<before, unsaved, shown>>

\* a failed copy that ends the save: save_plants returns after the warning
SaveBackupFailsAndReturns ==
    /\ pc = "save_backup"
    /\ BackupWanted
    /\ MayFail
    /\ faults' = faults + 1
    /\ \E b \in {backup} \cup {File(x) : x \in Partial(primary.bytes)} :
          backup' = b
    /\ bakFailed' = TRUE
    /\ ReturnFromSave
    /\ UNCHANGED <<sel, name, ret, arg, skip_backup, primary, tmp, pre, ops,
                   undo>>
    /\ UNCHANGED <<before, unsaved, shown>>

\* lines 52-53: the copy raises (before the backup is opened, or after it was
\* truncated), a warning is printed and the save goes on
SaveBackupFails ==
    /\ pc = "save_backup"
    /\ BackupWanted
    /\ MayFail
    /\ faults' = faults + 1
    /\ \E b \in {backup} \cup {File(x) : x \in Partial(primary.bytes)} :
          backup' = b
    /\ bakFailed' = TRUE
    /\ out' = "couldn't create backup"
    /\ pc' = "save_replace"
    /\ UNCHANGED <<plants, sel, name, ret, arg, skip_backup, primary, tmp, pre,
                   ops,
                   undo>>
    /\ UNCHANGED <<before, unsaved, shown>>

SaveBackupSkipped ==
    /\ pc = "save_backup"
    /\ ~BackupWanted
    /\ pc' = "save_replace"
    /\ UNCHANGED <<plants, sel, name, ret, arg, skip_backup, primary, backup,
                   tmp, out, pre, bakFailed, ops, faults,
                   undo>>
    /\ UNCHANGED <<before, unsaved, shown>>

\* line 56: os.replace
SaveReplace ==
    /\ pc = "save_replace"
    /\ primary' = tmp
    /\ tmp' = NoFile
    /\ ReturnFromSave
    /\ UNCHANGED <<sel, name, ret, arg, skip_backup, backup, pre, bakFailed,
                   ops, faults,
                   undo>>
    /\ UNCHANGED <<before, unsaved, shown>>

\* line 56 raises
SaveReplaceFails ==
    /\ pc = "save_replace"
    /\ MayFail
    /\ faults' = faults + 1
    /\ RaiseFromSave
    /\ UNCHANGED <<primary, backup, tmp, pre, bakFailed, ops>>

----------------------------------------------------------------------------
(* The process is interrupted inside save_plants *)

CrashDuringWrite ==
    /\ pc = "save_write"
    /\ \E b \in Partial(Dump(arg)) : tmp' = File(b)
    /\ pc' = "crashed"
    /\ out' = "during the write"
    /\ Dead
    /\ UNCHANGED <<primary, backup, pre, bakFailed, ops, faults>>

CrashAfterFsync ==
    /\ pc = "save_backup"
    /\ pc' = "crashed"
    /\ out' = "after the fsync"
    /\ Dead
    /\ UNCHANGED <<primary, backup, tmp, pre, bakFailed, ops, faults>>

CrashDuringBackup ==
    /\ pc = "save_backup"
    /\ BackupWanted
    /\ \E x \in Partial(primary.bytes) : backup' = File(x)
    /\ pc' = "crashed"
    /\ out' = "during the backup copy"
    /\ Dead
    /\ UNCHANGED <<primary, tmp, pre, bakFailed, ops, faults>>

CrashAfterBackup ==
    /\ pc = "save_replace"
    /\ pc' = "crashed"
    /\ out' = "after the backup copy"
    /\ Dead
    /\ UNCHANGED <<primary, backup, tmp, pre, bakFailed, ops, faults>>

----------------------------------------------------------------------------
(* load_plants *)

\* lines 14-15: json.load of a file
ReadFile(f) == Parse(f.bytes)

\* the file is absent or holds a document
Readable(f) == IF f.exists THEN ReadFile(f).ok ELSE TRUE

\* the file is absent or json.load of it raises
Unusable(f) == IF f.exists THEN ~ReadFile(f).ok ELSE TRUE

\* lines 14-17: the primary is absent or holds a document
LoadPrimary ==
    /\ pc = "start"
    /\ Readable(primary)
    /\ plants' = IF primary.exists THEN ReadFile(primary).val ELSE <<>>
    /\ pc' = "returned"
    /\ out' = "loaded"
    /\ UNCHANGED <<sel, name, ret, arg, skip_backup, primary, backup, tmp, pre,
                   bakFailed, ops, faults,
                   undo>>
    /\ UNCHANGED <<before, unsaved, shown>>

\* line 14 raises an OSError that is not FileNotFoundError (no except clause
\* matches): the process ends with a traceback
LoadOpenFails ==
    /\ pc = "start"
    /\ primary.exists
    /\ MayFail
    /\ faults' = faults + 1
    /\ pc' = "raised"
    /\ out' = "traceback"
    /\ Dead
    /\ UNCHANGED <<primary, backup, tmp, pre, bakFailed, ops>>

\* a repair that saves as any other save does, backup step included
LoadFromBackupRotating ==
    /\ pc = "start"
    /\ primary.exists /\ ~ReadFile(primary).ok
    /\ backup.exists /\ ReadFile(backup).ok
    /\ EnterSave(ReadFile(backup).val, FALSE, "repair")
    /\ out' = "repairing"
    /\ UNCHANGED <<plants, sel, name, primary, backup, tmp, ops, faults,
                   undo>>
    /\ UNCHANGED <<before, shown>>

\* lines 18-25: the primary does not parse, the backup does
LoadFromBackup ==
    /\ pc = "start"
    /\ primary.exists /\ ~ReadFile(primary).ok
    /\ backup.exists /\ ReadFile(backup).ok
    /\ EnterSave(ReadFile(backup).val, TRUE, "repair")
    /\ out' = "repairing"
    /\ UNCHANGED <<plants, sel, name, primary, backup, tmp, ops, faults,
                   undo>>
    /\ UNCHANGED <<before, shown>>

\* lines 21-23 raise an OSError, which line 27 catches
LoadBackupOpenFails ==
    /\ pc = "start"
    /\ primary.exists /\ ~ReadFile(primary).ok
    /\ backup.exists
    /\ MayFail
    /\ faults' = faults + 1
    /\ plants' = <<>>
    /\ pc' = "returned"
    /\ out' = "starting fresh"
    /\ bakFailed' = TRUE
    /\ UNCHANGED <<sel, name, ret, arg, skip_backup, primary, backup, tmp, pre,
                   ops,
                   undo>>
    /\ UNCHANGED <<before, unsaved, shown>>

\* lines 27-29: the backup is absent or does not parse
LoadStartFresh ==
    /\ pc = "start"
    /\ primary.exists /\ ~ReadFile(primary).ok
    /\ Unusable(backup)
    /\ plants' = <<>>
    /\ pc' = "returned"
    /\ out' = "starting fresh"
    /\ UNCHANGED <<sel, name, ret, arg, skip_backup, primary, backup, tmp, pre,
                   bakFailed, ops, faults,
                   undo>>
    /\ UNCHANGED <<before, unsaved, shown>>

\* main, lines 722-723: a call has returned to the loop, which prints the menu;
\* the locals of the call are gone
ShowMenu ==
    /\ pc = "returned"
    /\ pc' = "menu"
    /\ out' = "Plant Care Tracker"
    /\ sel' = 0
    /\ name' = <<>>
    /\ ret' = "none"
    /\ arg' = <<>>
    /\ skip_backup' = FALSE
    /\ pre' = [primary |-> primary, backup |-> backup]
    /\ bakFailed' = FALSE
    /\ undo' = IF Len(undo) = 2 THEN None ELSE undo
    /\ before' = plants
    /\ shown' = NoView
    /\ UNCHANGED <<plants, primary, backup, tmp, ops, faults, unsaved>>

----------------------------------------------------------------------------
(* The operations of the main loop *)

\* a search for the plant by the name the object with identity id had when the
\* menu was printed
IndexOfRememberedName(ps, id) ==
    IF \E i \in DOMAIN before, j \in DOMAIN ps :
           before[i].id = id /\ ps[j].name = before[i].name
    THEN CHOOSE j \in DOMAIN ps :
             \E i \in DOMAIN before :
                 before[i].id = id /\ ps[j].name = before[i].name
    ELSE 0

\* position in ps of the object with identity id (0: not in the list)
IndexOfId(ps, id) ==
    IF \E i \in DOMAIN ps : ps[i].id = id
    THEN CHOOSE i \in DOMAIN ps : ps[i].id = id
    ELSE 0

\* list.index by ==: the first item equal to plant p (0: ValueError)
IndexOfEqual(ps, p) ==
    IF \E i \in DOMAIN ps : Content(ps[i]) = Content(p)
    THEN CHOOSE i \in DOMAIN ps :
             /\ Content(ps[i]) = Content(p)
             /\ \A j \in 1..(i - 1) : Content(ps[j]) # Content(p)
    ELSE 0

\* the identity of a newly built dict: one no object in reach has
FreshId(ps) ==
    CHOOSE k \in 1..(Len(ps) + 2) :
        /\ k # sel
        /\ \A i \in DOMAIN ps : ps[i].id # k

\* history: the user removes the plant at position i
Undone(i) ==
    IF Len(undo) = 1 /\ i = Len(plants) THEN <<undo[1], "removed">> ELSE None

\* a removal that drops the head of the list whatever the index
PopFirst(ps, i) == Tail(ps)

\* list.pop(i)
Pop(ps, i) == SubSeq(ps, 1, i - 1) \o SubSeq(ps, i + 1, Len(ps))

\* a duplicate check that compares the names as typed
NameTakenExactly(ps, n) == \E i \in DOMAIN ps : ps[i].name = n

\* line 77: any(p["name"].lower() == name.lower() for p in plants)
NameTaken(ps, n) == \E i \in DOMAIN ps : Lower(ps[i].name) = Lower(n)

\* a duplicate check that does not leave out the plant being renamed
NameTakenByAny(ps, id, n) == \E i \in DOMAIN ps : Lower(ps[i].name) = Lower(n)

\* line 583: any(p is not plant and p["name"].lower() == new_name.lower() ...)
NameTakenByOther(ps, id, n) ==
    \E i \in DOMAIN ps : ps[i].id # id /\ Lower(ps[i].name) = Lower(n)

\* lines 120-124: the interval in days of a unit and a value
FertDays(unit, value) == IF unit = "d" THEN value ELSE value * 30

FertInputs == {FertDays(u, 1) : u \in {"m"}}

\* lines 96-102: blank, or an hour from 0 to 23
ValidHour(wh) == IF wh = None THEN TRUE ELSE wh[1] >= 0 /\ wh[1] <= 23

\* lines 330, 375: input().strip() or None
NotesOf(raw) == IF Strip(raw) = <<>> THEN None ELSE Some(Strip(raw))

\* lines 131-139
NewPlant(id, n, wi, wh, fi) ==
    [id |-> id, name |-> n, watering_interval |-> wi, watering_hour |-> wh,
     fertilizing_interval |-> fi, last_watered |-> None,
     last_fertilized |-> None, history |-> <<>>]

\* add_plant, lines 72-80: the name prompt, asked again until a name is accepted
AddName(raw) ==
    /\ pc \in {"menu", "add_name"}
    /\ MayChange
    /\ LET n == Strip(raw)
       IN  IF n = <<>>
           THEN /\ out' = "Name cannot be empty."
                /\ pc' = "add_name"
                /\ name' = name
           ELSE IF NameTaken(plants, n)
           THEN /\ out' = "A plant with that name already exists."
                /\ pc' = "add_name"
                /\ name' = name
           ELSE /\ out' = "Watering interval (days): "
                /\ pc' = "add_details"
                /\ name' = n
    /\ UNCHANGED <<plants, sel, ret, arg, skip_backup, primary, backup, tmp, pre,
                   bakFailed, ops, faults,
                   undo>>
    /\ UNCHANGED <<before, unsaved, shown>>

\* add_plant, lines 82-142: the other prompts (each asked again until its
\* answer is valid), then the append and the save
AddDetails(wi, wh, fi) ==
    /\ pc = "add_details"
    /\ wi >= 1
    /\ ValidHour(wh)
    /\ plants' = Append(plants, NewPlant(FreshId(plants), name, wi, wh, fi))
    /\ EnterSave(plants', FALSE, "added")
    /\ ops' = ops + 1
    /\ undo' = Some(Contents(plants))
    /\ UNCHANGED <<sel, name, primary, backup, tmp, out, faults>>
    /\ UNCHANGED <<before, shown>>

\* remove_plant(plants), lines 270-273: pick_plant returns a plant of the list
RemovePick(i) ==
    /\ pc = "menu"
    /\ MayChange
    /\ sel' = plants[i].id
    /\ pc' = "remove_confirm"
    /\ out' = "Are you sure"
    /\ UNCHANGED <<plants, name, ret, arg, skip_backup, primary, backup, tmp,
                   pre, bakFailed, ops, faults,
                   undo>>
    /\ UNCHANGED <<before, unsaved, shown>>

\* lines 276-284: "y"; after the save the loop asks again
RemoveConfirmYes ==
    /\ pc = "remove_confirm"
    /\ LET idx == IndexOfId(plants, sel)
       IN  IF idx = 0
           THEN /\ out' = "Plant not found."
                /\ pc' = "returned"
                /\ UNCHANGED <<plants, ret, arg, skip_backup, pre, bakFailed,
                               ops, undo, unsaved>>
           ELSE /\ MayChange
                /\ plants' = Pop(plants, idx)
                /\ EnterSave(plants', FALSE, "remove_loop")
                /\ ops' = ops + 1
                /\ undo' = Undone(idx)
                /\ out' = out
    /\ UNCHANGED <<sel, name, primary, backup, tmp, faults>>
    /\ UNCHANGED <<before, shown>>

\* lines 285-287: "n"
RemoveConfirmNo ==
    /\ pc = "remove_confirm"
    /\ out' = "Cancelled."
    /\ pc' = "returned"
    /\ UNCHANGED <<plants, sel, name, ret, arg, skip_backup, primary, backup,
                   tmp, pre, bakFailed, ops, faults,
                   undo>>
    /\ UNCHANGED <<before, unsaved, shown>>

\* show_plants, lines 157-216, then remove_plant(plants, plant), lines 257-268:
\* the plant found by the search is removed with list.remove
RemoveKnown(i, confirm) ==
    /\ pc = "menu"
    /\ MayChange
    /\ sel' = plants[i].id
    /\ IF confirm = "yes"
       THEN /\ plants' = Pop(plants, IndexOfEqual(plants, plants[i]))
            /\ EnterSave(plants', FALSE, "removed")
            /\ ops' = ops + 1
            /\ undo' = Undone(i)
            /\ out' = out
       ELSE /\ out' = "Cancelled."
            /\ pc' = "returned"
            /\ UNCHANGED <<plants, ret, arg, skip_backup, pre, bakFailed, ops,
                           undo, unsaved>>
    /\ UNCHANGED <<name, primary, backup, tmp, faults>>
    /\ UNCHANGED <<before, shown>>

\* show_plants, lines 157-231: the plant found by the search is edited
EditBegin(i) ==
    /\ pc = "menu"
    /\ MayChange
    /\ sel' = plants[i].id
    /\ pc' = "edit"
    /\ out' = "Editing"
    /\ UNCHANGED <<plants, name, ret, arg, skip_backup, primary, backup, tmp,
                   pre, bakFailed, ops, faults,
                   undo>>
    /\ UNCHANGED <<before, unsaved, shown>>

\* edit_plant, lines 576-588: the name prompt, asked again until accepted
Rename(raw) ==
    /\ pc \in {"edit", "edit_name"}
    /\ LET n == Strip(raw)
       IN  IF n = <<>>
           THEN /\ out' = "Please enter a name."
                /\ pc' = "edit_name"
                /\ UNCHANGED <<plants, ops, undo, unsaved>>
           ELSE IF NameTakenByOther(plants, sel, n)
           THEN /\ out' = "That name is already used by another plant."
                /\ pc' = "edit_name"
                /\ UNCHANGED <<plants, ops, undo, unsaved>>
           ELSE /\ MayChange
                /\ out' = "Name updated."
                /\ pc' = "edit_done"
                /\ plants' = [plants EXCEPT ![IndexOfId(plants, sel)].name = n]
                /\ ops' = ops + 1
                /\ unsaved' = unsaved + 1
                /\ undo' = None
    /\ UNCHANGED <<sel, name, ret, arg, skip_backup, primary, backup, tmp, pre,
                   bakFailed, faults>>
    /\ UNCHANGED <<before, shown>>

\* edit_plant, lines 590-601
SetWateringInterval(n) ==
    /\ pc = "edit"
    /\ MayChange
    /\ n >= 1
    /\ plants' = [plants EXCEPT ![IndexOfId(plants, sel)].watering_interval = n]
    /\ out' = "Watering interval updated."
    /\ pc' = "edit_done"
    /\ ops' = ops + 1
    /\ undo' = None
    /\ UNCHANGED <<sel, name, ret, arg, skip_backup, primary, backup, tmp,
                   pre, bakFailed, faults>>
    /\ unsaved' = unsaved + 1
    /\ UNCHANGED <<before, shown>>

\* history h without its fertilized entries
RECURSIVE WithoutFertilized(_)
WithoutFertilized(h) ==
    IF h = <<>> THEN <<>>
    ELSE (IF Head(h).action = Fertilized THEN <<>> ELSE <<Head(h)>>)
         \o WithoutFertilized(Tail(h))

\* an edit that, when it removes the schedule, removes the fertilized entries
\* of the history with it
SetFertilizingIntervalForgetting(fi) ==
    /\ pc = "edit"
    /\ MayChange
    /\ plants' =
          [plants EXCEPT
              ![IndexOfId(plants, sel)].fertilizing_interval = fi,
              ![IndexOfId(plants, sel)].history =
                  IF fi = None THEN WithoutFertilized(@) ELSE @]
    /\ out' = IF fi = None THEN "Fertilizing schedule removed."
              ELSE "Fertilizing interval updated."
    /\ pc' = "edit_done"
    /\ ops' = ops + 1
    /\ undo' = None
    /\ unsaved' = unsaved + 1
    /\ UNCHANGED <<sel, name, ret, arg, skip_backup, primary, backup, tmp,
                   pre, bakFailed, faults, before, shown>>

\* an edit that, when it removes the schedule, also forgets when the plant was
\* last fertilized
SetFertilizingIntervalResetting(fi) ==
    /\ pc = "edit"
    /\ MayChange
    /\ plants' =
          [plants EXCEPT
              ![IndexOfId(plants, sel)].fertilizing_interval = fi,
              ![IndexOfId(plants, sel)].last_fertilized =
                  IF fi = None THEN None ELSE @]
    /\ out' = IF fi = None THEN "Fertilizing schedule removed."
              ELSE "Fertilizing interval updated."
    /\ pc' = "edit_done"
    /\ ops' = ops + 1
    /\ undo' = None
    /\ unsaved' = unsaved + 1
    /\ UNCHANGED <<sel, name, ret, arg, skip_backup, primary, backup, tmp,
                   pre, bakFailed, faults, before, shown>>

\* edit_plant, lines 603-629: fi is the new interval, None to remove the schedule
SetFertilizingInterval(fi) ==
    /\ pc = "edit"
    /\ MayChange
    /\ plants' =
          [plants EXCEPT ![IndexOfId(plants, sel)].fertilizing_interval = fi]
    /\ out' = IF fi = None THEN "Fertilizing schedule removed."
              ELSE "Fertilizing interval updated."
    /\ pc' = "edit_done"
    /\ ops' = ops + 1
    /\ undo' = None
    /\ UNCHANGED <<sel, name, ret, arg, skip_backup, primary, backup, tmp,
                   pre, bakFailed, faults>>
    /\ unsaved' = unsaved + 1
    /\ UNCHANGED <<before, shown>>

\* edit_plant, lines 567-574: the loop prints its menu again
EditMenu ==
    /\ pc = "edit_done"
    /\ pc' = "edit"
    /\ out' = "Editing"
    /\ UNCHANGED <<plants, sel, name, ret, arg, skip_backup, primary, backup,
                   tmp, pre, bakFailed, ops, faults,
                   undo>>
    /\ UNCHANGED <<before, unsaved, shown>>

\* a way back to the menu that does not save
EditBackWithoutSave ==
    /\ pc = "edit"
    /\ pc' = "returned"
    /\ out' = "edited"
    /\ UNCHANGED <<plants, sel, name, ret, arg, skip_backup, primary, backup,
                   tmp, pre, bakFailed, ops, faults, undo, before, unsaved,
                   shown>>

\* edit_plant, lines 637-642: "4. Back", then the one save of the session
EditBack ==
    /\ pc = "edit"
    /\ EnterSave(plants, FALSE, "edited")
    /\ UNCHANGED <<plants, sel, name, primary, backup, tmp, out, ops, faults,
                   undo>>
    /\ UNCHANGED <<before, shown>>

\* mark_watered, lines 293-308: the plant is picked and stamped with now
MarkWateredBegin(i) ==
    /\ pc = "menu"
    /\ MayChange
    /\ sel' = plants[i].id
    /\ plants' =
          [plants EXCEPT ![i].last_watered = Some(DateTimeStr(Today, Now))]
    /\ pc' = "mark_watered"
    /\ out' = "Marked as watered"
    /\ ops' = ops + 1
    /\ undo' = None
    /\ UNCHANGED <<name, ret, arg, skip_backup, primary, backup, tmp, pre,
                   bakFailed, faults>>
    /\ unsaved' = unsaved + 1
    /\ UNCHANGED <<before, shown>>

\* a handler that dates the history entry with the stamp of line 306, whatever
\* date the user typed afterwards
MarkWateredEndStamped(edit, d, notes) ==
    /\ pc = "mark_watered"
    /\ LET idx == IndexOfId(plants, sel)
           when == IF edit = "y" THEN Some(DateTimeStr(d, 0))
                   ELSE plants[idx].last_watered
           entry == [action |-> Watered, date |-> plants[idx].last_watered[1],
                     notes |-> NotesOf(notes)]
       IN  plants' = [plants EXCEPT ![idx].last_watered = when,
                                    ![idx].history = Append(@, entry)]
    /\ EnterSave(plants', FALSE, "watered")
    /\ UNCHANGED <<sel, name, primary, backup, tmp, out, ops, faults,
                   undo>>
    /\ UNCHANGED <<before, shown>>

\* mark_watered, lines 311-333: edit "y" replaces the stamp by the date typed
\* (the time left blank: 00:00); the history entry; the save
MarkWateredEnd(edit, d, notes) ==
    /\ pc = "mark_watered"
    /\ LET idx == IndexOfId(plants, sel)
           when == IF edit = "y" THEN Some(DateTimeStr(d, 0))
                   ELSE plants[idx].last_watered
           entry == [action |-> Watered, date |-> when[1],
                     notes |-> NotesOf(notes)]
       IN  plants' = [plants EXCEPT ![idx].last_watered = when,
                                    ![idx].history = Append(@, entry)]
    /\ EnterSave(plants', FALSE, "watered")
    /\ UNCHANGED <<sel, name, primary, backup, tmp, out, ops, faults,
                   undo>>
    /\ UNCHANGED <<before, shown>>

\* a handler that stamps the plant without looking at its schedule
MarkFertilizedBeginUnchecked(i) ==
    /\ pc = "menu"
    /\ MayChange
    /\ sel' = plants[i].id
    /\ plants' = [plants EXCEPT ![i].last_fertilized = Some(DateStr(Today))]
    /\ pc' = "mark_fertilized"
    /\ out' = "Marked as fertilized"
    /\ ops' = ops + 1
    /\ unsaved' = unsaved + 1
    /\ undo' = None
    /\ UNCHANGED <<name, ret, arg, skip_backup, primary, backup, tmp, pre,
                   bakFailed, faults, before, shown>>

\* mark_fertilized, lines 336-354: the plant is picked; without a schedule the
\* handler returns, otherwise the plant is stamped with today
MarkFertilizedBegin(i) ==
    /\ pc = "menu"
    /\ MayChange
    /\ sel' = plants[i].id
    /\ IF plants[i].fertilizing_interval = None
       THEN /\ out' = "does not have a fertilizing schedule"
            /\ pc' = "returned"
            /\ UNCHANGED <<plants, ops, undo, unsaved>>
       ELSE /\ plants' =
                  [plants EXCEPT ![i].last_fertilized = Some(DateStr(Today))]
            /\ pc' = "mark_fertilized"
            /\ out' = "Marked as fertilized"
            /\ ops' = ops + 1
            /\ unsaved' = unsaved + 1
            /\ undo' = None
    /\ UNCHANGED <<name, ret, arg, skip_backup, primary, backup, tmp, pre,
                   bakFailed, faults>>
    /\ UNCHANGED <<before, shown>>

\* mark_fertilized, lines 357-378
MarkFertilizedEnd(edit, d, notes) ==
    /\ pc = "mark_fertilized"
    /\ LET idx == IndexOfId(plants, sel)
           when == IF edit = "y" THEN Some(DateStr(d))
                   ELSE plants[idx].last_fertilized
           entry == [action |-> Fertilized, date |-> when[1],
                     notes |-> NotesOf(notes)]
       IN  plants' = [plants EXCEPT ![idx].last_fertilized = when,
                                    ![idx].history = Append(@, entry)]
    /\ EnterSave(plants', FALSE, "fertilized")
    /\ UNCHANGED <<sel, name, primary, backup, tmp, out, ops, faults,
                   undo>>
    /\ UNCHANGED <<before, shown>>

----------------------------------------------------------------------------
(* show_history and show_reminders *)

\* a date text names a day of Calendar; day 1 is 2024-01-01
Calendar == 1..MaxDay

\* the times of day a date-time text may name
Clock == {0, 9, 23}

\* line 467, 494: the truth value of an optional text
Truthy(x) == IF x = None THEN FALSE ELSE x[1] # <<>>

\* line 469: "T" in last_watered_str
HasTime(s) == \E k \in DOMAIN s : s[k] = "T"

\* lines 472, 495: date.fromisoformat
FromIsoDate(s) == CHOOSE d \in Calendar : DateStr(d) = s

\* a conversion that takes the time of day of the text for its day
FromIsoDateTimeAsTime(s) ==
    CHOOSE t \in Clock : \E d \in Calendar : DateTimeStr(d, t) = s

\* line 470: datetime.fromisoformat(...).date()
FromIsoDateTime(s) ==
    CHOOSE d \in Calendar : \E t \in Clock : DateTimeStr(d, t) = s

\* a computation that counts the days of a plant never watered from the day
\* before the calendar begins
WateringDaysUntilFromEpoch(plant, today) ==
    (IF ~Truthy(plant.last_watered) THEN 0
     ELSE IF HasTime(plant.last_watered[1])
     THEN FromIsoDateTime(plant.last_watered[1])
     ELSE FromIsoDate(plant.last_watered[1]))
    + plant.watering_interval - today

\* lines 467-476: days_until of the watering
WateringDaysUntil(plant, today) ==
    IF Truthy(plant.last_watered)
    THEN (IF HasTime(plant.last_watered[1])
          THEN FromIsoDateTime(plant.last_watered[1])
          ELSE FromIsoDate(plant.last_watered[1]))
         + plant.watering_interval - today
    ELSE 0

\* lines 494-499: fert_days_until, of a plant that has a schedule
FertilizingDaysUntil(plant, today) ==
    IF Truthy(plant.last_fertilized)
    THEN FromIsoDate(plant.last_fertilized[1])
         + plant.fertilizing_interval[1] - today
    ELSE 0

\* a classification that calls the day itself overdue
DueLate(kind, days_until) ==
    IF days_until <= 0
    THEN [kind |-> kind, due |-> "OVERDUE by", days |-> -days_until]
    ELSE [kind |-> kind, due |-> "Due in", days |-> days_until]

\* lines 478-483, 501-506: the line of a reminder
Due(kind, days_until) ==
    IF days_until < 0
    THEN [kind |-> kind, due |-> "OVERDUE by", days |-> -days_until]
    ELSE IF days_until = 0
    THEN [kind |-> kind, due |-> "Due today!", days |-> 0]
    ELSE [kind |-> kind, due |-> "Due in", days |-> days_until]

\* line 492
NoFertilizingSchedule ==
    [kind |-> "Fertilizing", due |-> "No fertilizing schedule", days |-> 0]

\* lines 466-486
WateringMessages(plant, filter_choice, today) ==
    IF /\ filter_choice \in {"1", "2", "4"}
       /\ (filter_choice # "4" \/ WateringDaysUntil(plant, today) <= 0)
    THEN <<Due("Watering", WateringDaysUntil(plant, today))>>
    ELSE <<>>

\* a view that prints the line of a plant without a schedule under every filter
FertilizingMessagesUnfiltered(plant, filter_choice, today) ==
    IF filter_choice \notin {"1", "3", "4"} THEN <<>>
    ELSE IF plant.fertilizing_interval = None THEN <<NoFertilizingSchedule>>
    ELSE <<Due("Fertilizing", FertilizingDaysUntil(plant, today))>>

\* lines 489-509
FertilizingMessages(plant, filter_choice, today) ==
    IF filter_choice \notin {"1", "3", "4"} THEN <<>>
    ELSE IF plant.fertilizing_interval = None
    THEN (IF filter_choice # "4" THEN <<NoFertilizingSchedule>> ELSE <<>>)
    ELSE IF filter_choice # "4" \/ FertilizingDaysUntil(plant, today) <= 0
    THEN <<Due("Fertilizing", FertilizingDaysUntil(plant, today))>>
    ELSE <<>>

\* lines 401-404, 511-514: the name of the plant above its messages, or nothing
Block(plant, messages) ==
    IF messages # <<>>
    THEN <<[name |-> plant.name, lines |-> messages]>>
    ELSE <<>>

\* lines 461-514
reminder_for(plant, filter_choice, today) ==
    Block(plant, WateringMessages(plant, filter_choice, today)
                 \o FertilizingMessages(plant, filter_choice, today))

\* lines 559-561: for plant in plants: reminder_for(plant, filter_choice)
RECURSIVE AllReminders(_, _, _)
AllReminders(ps, filter_choice, today) ==
    IF ps = <<>> THEN <<>>
    ELSE reminder_for(Head(ps), filter_choice, today)
         \o AllReminders(Tail(ps), filter_choice, today)

\* show_reminders, lines 454-563: choice is the answer to the plant prompt,
\* which is asked of a list of two plants or more
ShowReminders(choice, filter_choice, today) ==
    /\ pc = "menu"
    /\ choice \in 0..Len(plants)
    /\ IF plants = <<>>
       THEN /\ out' = "No plants added yet."
            /\ shown' = NoView
       ELSE /\ out' = "reminders"
            /\ shown' =
                  [view |-> "reminders",
                   choice |-> IF Len(plants) = 1 THEN 1 ELSE choice,
                   filter |-> filter_choice,
                   today |-> today,
                   blocks |->
                       IF Len(plants) = 1
                       THEN reminder_for(plants[1], filter_choice, today)
                       ELSE IF choice = 0
                       THEN AllReminders(plants, filter_choice, today)
                       ELSE reminder_for(plants[choice], filter_choice, today)]
    /\ pc' = "returned"
    /\ UNCHANGED <<plants, sel, name, ret, arg, skip_backup, primary, backup,
                   tmp, pre, bakFailed, ops, faults, undo, before, unsaved>>

\* line 389
NoHistoryYet == [action |-> <<"No history yet.">>, date |-> <<>>, notes |-> None]

\* lines 397-399: the line of a history entry; notes that are None or empty
\* are not printed
HistoryLine(entry) ==
    [action |-> entry.action, date |-> entry.date,
     notes |-> IF Truthy(entry.notes) THEN entry.notes ELSE None]

\* a filter that looks at the action of no entry
PassesAny(entry, filter_choice) == TRUE

\* lines 393-396: the entry is not skipped
Passes(entry, filter_choice) ==
    /\ ~(filter_choice = "2" /\ entry.action # Watered)
    /\ ~(filter_choice = "3" /\ entry.action # Fertilized)

\* lines 391-399: for entry in plant["history"]
RECURSIVE HistoryMessages(_, _)
HistoryMessages(history, filter_choice) ==
    IF history = <<>> THEN <<>>
    ELSE (IF Passes(Head(history), filter_choice)
          THEN <<HistoryLine(Head(history))>>
          ELSE <<>>)
         \o HistoryMessages(Tail(history), filter_choice)

\* lines 386-404
history_for(plant, filter_choice) ==
    Block(plant, IF plant.history = <<>> THEN <<NoHistoryYet>>
                 ELSE HistoryMessages(plant.history, filter_choice))

\* lines 447-449: for plant in plants: history_for(plant, filter_choice)
RECURSIVE AllHistories(_, _)
AllHistories(ps, filter_choice) ==
    IF ps = <<>> THEN <<>>
    ELSE history_for(Head(ps), filter_choice)
         \o AllHistories(Tail(ps), filter_choice)

\* show_history, lines 381-451: choice is the answer to the plant prompt,
\* which is asked of a list of two plants or more
ShowHistory(choice, filter_choice) ==
    /\ pc = "menu"
    /\ choice \in 0..Len(plants)
    /\ IF plants = <<>>
       THEN /\ out' = "No plants added yet."
            /\ shown' = NoView
       ELSE /\ out' = "history"
            /\ shown' =
                  [view |-> "history",
                   choice |-> IF Len(plants) = 1 THEN 1 ELSE choice,
                   filter |-> filter_choice,
                   today |-> 0,
                   blocks |->
                       IF Len(plants) = 1
                       THEN history_for(plants[1], filter_choice)
                       ELSE IF choice = 0
                       THEN AllHistories(plants, filter_choice)
                       ELSE history_for(plants[choice], filter_choice)]
    /\ pc' = "returned"
    /\ UNCHANGED <<plants, sel, name, ret, arg, skip_backup, primary, backup,
                   tmp, pre, bakFailed, ops, faults, undo, before, unsaved>>

\* the positions at which the process waits in input()
Prompts ==
    {"menu", "add_name", "add_details", "remove_confirm", "edit", "edit_name",
     "mark_watered", "mark_fertilized"}

\* input() raises EOFError or KeyboardInterrupt (the user closes the input or
\* presses Ctrl-C at a prompt); no handler catches it and the process ends with
\* a traceback that names the prompt
Interrupt ==
    /\ pc \in Prompts
    /\ pc' = "interrupted"
    /\ out' = pc
    /\ Unwinding
    /\ UNCHANGED <<primary, backup, tmp, pre, bakFailed, ops, faults>>

\* main, lines 739-741
Exit ==
    /\ pc = "menu"
    /\ pc' = "exited"
    /\ out' = "Goodbye!"
    /\ Dead
    /\ UNCHANGED <<primary, backup, tmp, pre, bakFailed, ops, faults>>

----------------------------------------------------------------------------
(* The program *)

HourChoices == {None} \cup {Some(h) : h \in HourInputs}
FertChoices == {None} \cup {Some(f) : f \in FertInputs}

\* the answers to the prompts of add_plant after the name: every prompt left
\* blank where it may be, or every prompt answered
AddAnswers ==
    {[wi |-> wi, wh |-> None, fi |-> None] : wi \in IntInputs}
    \cup {[wi |-> wi, wh |-> wh, fi |-> fi] :
              wi \in IntInputs, wh \in HourChoices \ {None},
              fi \in FertChoices \ {None}}

\* the answers to the prompts of mark_watered and mark_fertilized: the stamp
\* kept and no notes, or another date typed and notes given
MarkAnswers ==
    {[edit |-> "n", d |-> d, notes |-> <<" ">>] : d \in Days}
    \cup {[edit |-> "y", d |-> d, notes |-> n] :
              d \in Days, n \in NoteInputs \ {<<" ">>}}

\* the answers to the filter prompts of show_history and show_reminders
HistoryFilters == {"1", "2", "3"}
ReminderFilters == {"1", "2", "3", "4"}

Next ==
    \/ LoadPrimary
    \/ LoadOpenFails
    \/ LoadFromBackup
    \/ LoadBackupOpenFails
    \/ LoadStartFresh
    \/ ShowMenu
    \/ SaveWriteTmp
    \/ SaveWriteTmpFails
    \/ SaveBackup
    \/ SaveBackupFails
    \/ SaveBackupSkipped
    \/ SaveReplace
    \/ SaveReplaceFails
    \/ CrashDuringWrite
    \/ CrashAfterFsync
    \/ CrashDuringBackup
    \/ CrashAfterBackup
    \/ \E raw \in RawNames : AddName(raw)
    \/ \E a \in AddAnswers : AddDetails(a.wi, a.wh, a.fi)
    \/ \E i \in DOMAIN plants : RemovePick(i)
    \/ RemoveConfirmYes
    \/ RemoveConfirmNo
    \/ \E i \in DOMAIN plants, c \in {"yes", "no"} : RemoveKnown(i, c)
    \/ \E i \in DOMAIN plants : EditBegin(i)
    \/ \E raw \in RawNames : Rename(raw)
    \/ \E n \in IntInputs : SetWateringInterval(n)
    \/ \E fi \in FertChoices : SetFertilizingInterval(fi)
    \/ EditMenu
    \/ EditBack
    \/ \E i \in DOMAIN plants : MarkWateredBegin(i)
    \/ \E m \in MarkAnswers : MarkWateredEnd(m.edit, m.d, m.notes)
    \/ \E i \in DOMAIN plants : MarkFertilizedBegin(i)
    \/ \E m \in MarkAnswers : MarkFertilizedEnd(m.edit, m.d, m.notes)
    \/ \E c \in 0..Len(plants), f \in HistoryFilters : ShowHistory(c, f)
    \/ \E c \in 0..Len(plants), f \in ReminderFilters :
          ShowReminders(c, f, Today)
    \/ Interrupt
    \/ Exit

Spec == Init /\ [][Next]_vars

----------------------------------------------------------------------------
(* The views on their own: show_history and show_reminders of the lists a   *)
(* process may hold, on the days it may run                                 *)

\* the values date.today() may have at line 459
Todays == {1, 2, 3, 5, 8, 10, 40}

\* the days the last dates of the plants below name
ViewDays == {1, 3}

\* the k-th entry of a history, of action a; the second one carries notes
ViewEntry(a, k) ==
    [action |-> a,
     date |-> IF a = Watered THEN DateTimeStr(k, 9) ELSE DateStr(k),
     notes |-> IF k = 2 THEN Some(<<"n">>) ELSE None]

\* every history of at most MaxHistory entries
ViewHistories ==
    UNION {{[k \in 1..n |-> ViewEntry(f[k], k)] :
                f \in [1..n -> {Watered, Fertilized}]} : n \in 0..MaxHistory}

\* the date of the last entry of action a in history h, as the handlers leave
\* it in last_watered / last_fertilized
LastOf(h, a) ==
    IF \E k \in DOMAIN h : h[k].action = a
    THEN Some(h[CHOOSE k \in DOMAIN h :
                    /\ h[k].action = a
                    /\ \A j \in DOMAIN h : h[j].action = a => j <= k].date)
    ELSE None

ViewLastWatered ==
    {None} \cup {Some(DateStr(d)) : d \in ViewDays}
           \cup {Some(DateTimeStr(d, t)) : d \in ViewDays, t \in Clock}

\* plants without a history, of every schedule and every last date, and plants
\* of every history, with and without a fertilizing schedule
ViewPlants ==
    {[id |-> 1, name |-> <<"f">>, watering_interval |-> wi,
      watering_hour |-> None, fertilizing_interval |-> fi,
      last_watered |-> lw, last_fertilized |-> lf, history |-> <<>>] :
         wi \in {1, 7}, fi \in {None, Some(2), Some(30)},
         lw \in ViewLastWatered, lf \in {None, Some(DateStr(1))}}
    \cup
    {[id |-> 1, name |-> <<"f">>, watering_interval |-> 7,
      watering_hour |-> None, fertilizing_interval |-> fi,
      last_watered |-> LastOf(h, Watered),
      last_fertilized |-> LastOf(h, Fertilized), history |-> h] :
         fi \in {None, Some(30)}, h \in ViewHistories}

\* the lists: one plant, or that plant and the ivy
ViewLists == {<<p>> : p \in ViewPlants} \cup {<<p, Ivy>> : p \in ViewPlants}

\* the menu is on the screen and the list is as it was saved
ViewInit ==
    /\ plants \in ViewLists
    /\ sel = 0
    /\ name = <<>>
    /\ pc = "menu"
    /\ ret = "none"
    /\ arg = <<>>
    /\ skip_backup = FALSE
    /\ primary = File(Dump(plants))
    /\ backup = NoFile
    /\ tmp = NoFile
    /\ out = "Plant Care Tracker"
    /\ pre = [primary |-> primary, backup |-> backup]
    /\ bakFailed = FALSE
    /\ ops = 0
    /\ faults = 0
    /\ undo = None
    /\ before = plants
    /\ unsaved = 0
    /\ shown = NoView

ViewNext ==
    \/ \E c \in 0..Len(plants), f \in HistoryFilters : ShowHistory(c, f)
    \/ \E c \in 0..Len(plants), f \in ReminderFilters, t \in Todays :
          ShowReminders(c, f, t)
    \/ ShowMenu

ViewSpec == ViewInit /\ [][ViewNext]_vars

----------------------------------------------------------------------------
(* Properties of the store: save_plants and load_plants *)

\* the process is inside save_plants, before os.replace
InSave == pc \in {"save_write", "save_backup", "save_replace"}

\* a call of save_plants made by an operation of the menu has just returned
SaveDone ==
    /\ pc \in {"returned", "remove_confirm"}
    /\ out \in {"added", "removed", "edited", "watered", "fertilized"}

\* load_plants has just returned
LoadReturned ==
    /\ pc = "returned"
    /\ out \in {"loaded", "loaded from backup", "starting fresh"}

\* the file exists and json.load of it raises
Damaged(f) == f.exists /\ ~ReadFile(f).ok

\* the file exists and holds a document
Valid(f) == f.exists /\ ReadFile(f).ok

\* C1: while a save has not yet reached os.replace, and after the process was
\* interrupted or the save raised at any point before it (during the write of
\* the temp file, after the fsync, during the backup copy, after the backup
\* copy), plants.json is exactly what it was when the save was entered: not
\* removed, not truncated, not partly written.
C1_PrimaryUntouchedBeforeReplace ==
    (InSave \/ pc \in {"crashed", "raised"}) => primary = pre.primary

\* C1 witness: interrupted during the backup copy of a save over an existing
\* plants.json, the temp file written and the backup damaged
C1_Witness ==
    /\ pc = "crashed"
    /\ out = "during the backup copy"
    /\ primary.exists
    /\ tmp.exists /\ tmp # primary
    /\ backup # pre.backup

\* C2 as stated: after every save of the menu's operations that was made over
\* an existing plants.json and reached os.replace, plants.json holds the list
\* saved and plants.json.bak the bytes plants.json had when the save began.
C2_AsStated ==
    (SaveDone /\ pre.primary.exists) =>
        /\ primary = File(Dump(plants))
        /\ backup = File(pre.primary.bytes)

\* C2 amended: the same, for the saves whose backup copy did not raise (a copy
\* that raised leaves the backup as it was, or truncated).
C2_BackupOneGenerationBehind ==
    (SaveDone /\ pre.primary.exists /\ ~bakFailed) =>
        /\ primary = File(Dump(plants))
        /\ backup = File(pre.primary.bytes)

\* C2 witness: the second save of a run, its backup the document the first
\* save wrote
C2_Witness ==
    /\ SaveDone
    /\ ops = 2
    /\ pre.primary.exists
    /\ ~bakFailed
    /\ backup = File(pre.primary.bytes)
    /\ backup # primary
    /\ backup # Corrupt

\* C3: load_plants entered with a plants.json that does not parse and a
\* plants.json.bak that does, no call of the operating system failing during
\* the load: it returns the plants of the backup, plants.json then holds a
\* document from which a load returns the same plants, and plants.json.bak is
\* unchanged.
C3_RecoveryFromBackup ==
    (LoadReturned /\ Damaged(pre.primary) /\ Valid(pre.backup) /\ faults = 0) =>
        /\ Contents(plants) = Contents(ReadFile(pre.backup).val)
        /\ Valid(primary)
        /\ Contents(ReadFile(primary).val) = Contents(plants)
        /\ backup = pre.backup

\* C3 witness: two plants recovered from the backup, plants.json rewritten
C3_Witness ==
    /\ LoadReturned
    /\ Damaged(pre.primary)
    /\ Valid(pre.backup)
    /\ faults = 0
    /\ Len(plants) = 2
    /\ primary # pre.primary

\* C4: load_plants entered with a plants.json that does not parse and a
\* plants.json.bak that does (and can be opened) returns the plants of the
\* backup, also when the repair write fails; and no later save replaces that
\* backup, the only copy of them, by a file that does not parse.
C4_ValidBackupNeverLost ==
    /\ (LoadReturned /\ Damaged(pre.primary) /\ Valid(pre.backup) /\ ~bakFailed)
          => Contents(plants) = Contents(ReadFile(pre.backup).val)
    /\ (SaveDone /\ Damaged(pre.primary) /\ Valid(pre.backup)) => Valid(backup)

\* C5: neither load_plants nor save_plants lets an exception reach its caller:
\* the process never ends with a traceback.
C5_NeverRaises == pc # "raised"

\* C6: a save whose backup copy raised goes on to os.replace with the temp
\* file written, and when it has returned plants.json holds the list saved.
C6_SaveSurvivesBackupFailure ==
    /\ (bakFailed /\ pc = "save_replace") => tmp = File(Dump(arg))
    /\ (bakFailed /\ SaveDone) =>
          /\ primary = File(Dump(plants))
          /\ Contents(ReadFile(primary).val) = Contents(plants)

\* C6 witness: the save has returned, the list saved differs from the one on
\* disk before, and the backup is not the previous generation
C6_Witness ==
    /\ bakFailed
    /\ SaveDone
    /\ primary # pre.primary
    /\ backup # File(pre.primary.bytes)

\* C7: when a save (of an operation, or the repair write) has returned,
\* json.load of plants.json succeeds and yields the list that was saved:
\* the same plants in the same order, each field and each history entry equal,
\* None where it was None.
C7_RoundTrip ==
    (SaveDone \/ (pc = "returned" /\ out = "loaded from backup")) =>
        /\ Valid(primary)
        /\ Contents(ReadFile(primary).val) = Contents(arg)

\* C7 witness: a saved list of several plants, one with every optional field
\* None and no history, one whose history has an entry without notes and an
\* entry with notes
C7_Witness ==
    /\ SaveDone
    /\ Len(arg) >= 2
    /\ \E i \in DOMAIN arg :
          /\ arg[i].watering_hour = None
          /\ arg[i].fertilizing_interval = None
          /\ arg[i].last_watered = None
          /\ arg[i].last_fertilized = None
          /\ arg[i].history = <<>>
    /\ \E j \in DOMAIN arg :
          /\ arg[j].watering_hour # None
          /\ arg[j].fertilizing_interval # None
          /\ \E a, b \in DOMAIN arg[j].history :
                /\ arg[j].history[a].notes = None
                /\ arg[j].history[b].notes # None

----------------------------------------------------------------------------
(* Properties of the operations on the list *)

\* no two plants of ps have names that are equal ignoring case
UniqueNames(ps) ==
    \A i, j \in DOMAIN ps : i # j => Lower(ps[i].name) # Lower(ps[j].name)

\* some plant of ps other than the one at position idx has name n ignoring case
OtherHasName(ps, idx, n) ==
    \E i \in DOMAIN ps : i # idx /\ Lower(ps[i].name) = Lower(n)

\* the step answers the name prompt of add_plant with a name some plant has
\* ignoring case: the name is asked again and nothing has changed
AddRejectsDuplicate ==
    \A raw \in RawNames :
        (/\ AddName(raw)
         /\ Strip(raw) # <<>>
         /\ OtherHasName(plants, 0, Strip(raw)))
        => /\ pc' = "add_name"
           /\ out' = "A plant with that name already exists."
           /\ plants' = plants

\* the step answers the name prompt of edit_plant with a name another plant
\* has ignoring case: the name is asked again and nothing has changed
RenameRejectsDuplicate ==
    \A raw \in RawNames :
        (/\ Rename(raw)
         /\ Strip(raw) # <<>>
         /\ OtherHasName(plants, IndexOfId(plants, sel), Strip(raw)))
        => /\ pc' = "edit_name"
           /\ out' = "That name is already used by another plant."
           /\ plants' = plants

\* C8: the plants loaded have names that are unique ignoring case, and so have
\* the plants after any sequence of operations; an add with a name some plant
\* has ignoring case, and a rename to a name another plant has ignoring case,
\* are rejected and leave the list as it was.
C8_NamesStayUnique ==
    /\ []UniqueNames(plants)
    /\ [][AddRejectsDuplicate /\ RenameRejectsDuplicate]_vars

\* C8 witness: after a first change to a list of several plants, a rename was
\* rejected for a name that differs from another plant's only in case
C8_Witness ==
    /\ pc = "edit_name"
    /\ out = "That name is already used by another plant."
    /\ ops >= 1
    /\ Len(plants) >= 2
    /\ \E i \in DOMAIN plants : plants[i].name = <<"F">>

\* the step answers the name prompt of edit_plant with the non-empty name n:
\* rejected if another plant has it ignoring case, and otherwise the plant has
\* that name and no other field of any plant has changed
RenameOutcome(n) ==
    LET idx == IndexOfId(plants, sel)
    IN  /\ OtherHasName(plants, idx, n) =>
              /\ out' = "That name is already used by another plant."
              /\ plants' = plants
        /\ ~OtherHasName(plants, idx, n) =>
              /\ out' = "Name updated."
              /\ plants' = [plants EXCEPT ![idx].name = n]
        /\ n = plants[idx].name =>
              /\ out' = "Name updated."
              /\ plants' = plants

\* C9: a rename is rejected exactly when a plant other than the one renamed
\* has the new name ignoring case; a rename of a plant to the name it has is
\* accepted and leaves the list as it was.
C9_RenameExcludesItself ==
    [][\A raw \in RawNames :
          (Strip(raw) # <<>> /\ Rename(raw)) => RenameOutcome(Strip(raw))]_vars

\* C9 witness: a plant was renamed to its own name in another case, which a
\* check that counts the plant itself would reject
C9_Witness ==
    /\ pc = "edit_done"
    /\ out = "Name updated."
    /\ Len(plants) >= 2
    /\ plants[IndexOfId(plants, sel)].name = <<"F">>
    /\ plants[IndexOfId(plants, sel)].watering_interval = 7

\* C10: when a plant is added and the next change removes that plant (picked
\* from the list, or found by the search), the list has the contents it had
\* before the add: the same plants in the same order, no field altered.
C10_AddThenRemoveRestores == Len(undo) = 2 => Contents(plants) = undo[1]

\* C10 witness: the added plant was removed from a list of two other plants
\* and the save of the removal has returned
C10_Witness ==
    /\ Len(undo) = 2
    /\ SaveDone
    /\ Len(plants) = 2

----------------------------------------------------------------------------
(* Properties of mark_watered and mark_fertilized *)

\* the handler that records action act has appended its entry and called
\* save_plants, or has returned from it
Marked(act) ==
    \/ InSave /\ ret = act[1]
    \/ pc = "returned" /\ out = act[1]

\* plant new is plant old with one more history entry, of action act, and with
\* the date of that entry as its last date of that action; nothing else differs
OneMark(old, new, act) ==
    /\ Len(new.history) = Len(old.history) + 1
    /\ LET e == new.history[Len(new.history)]
       IN  /\ e.action = act
           /\ new = IF act = Watered
                    THEN [old EXCEPT !.last_watered = Some(e.date),
                                     !.history = Append(@, e)]
                    ELSE [old EXCEPT !.last_fertilized = Some(e.date),
                                     !.history = Append(@, e)]

\* the list now is the list before, but for one mark of action act on one plant
OnePlantMarked(act) ==
    /\ Len(plants) = Len(before)
    /\ \E i \in DOMAIN before :
          /\ OneMark(before[i], plants[i], act)
          /\ \A j \in DOMAIN before : j # i => plants[j] = before[j]

\* C11: once mark_watered (mark_fertilized) has recorded its entry, the plant
\* has exactly one history entry more than when the menu was printed, that
\* entry is a watered (fertilized) one and its date is the plant's last_watered
\* (last_fertilized), also when the user typed another date; no other field of
\* the plant and no other plant has changed.
C11_MarkAppendsOneEntry ==
    /\ Marked(Watered) => OnePlantMarked(Watered)
    /\ Marked(Fertilized) => OnePlantMarked(Fertilized)

\* the user has marked the fern of two plants as watered on a day they typed
C11_Witness ==
    /\ pc = "returned"
    /\ out = "watered"
    /\ Len(plants) = 2
    /\ plants[1].last_watered = Some(DateTimeStr(1, 0))
    /\ Len(plants[1].history) = 1

\* the message of line 348 is on the screen and the handler has returned
NoScheduleOutcome ==
    /\ pc = "returned"
    /\ out = "does not have a fertilizing schedule"

\* mark_fertilized of plant i, which has no schedule, ends with the message of
\* line 348 and changes neither the list nor a file
RefusesWithoutSchedule(i) ==
    (MarkFertilizedBegin(i) /\ plants[i].fertilizing_interval = None) =>
        /\ NoScheduleOutcome'
        /\ plants' = plants
        /\ <<primary, backup, tmp>>' = <<primary, backup, tmp>>

\* C12: mark_fertilized on a plant whose fertilizing_interval is None prints
\* that the plant has no fertilizing schedule and returns: last_fertilized, the
\* history, the other plants and the files on disk are what they were when the
\* menu was printed, and save_plants is not called.
C12_NoScheduleNoChange ==
    /\ [](NoScheduleOutcome =>
              /\ plants = before
              /\ primary = pre.primary /\ backup = pre.backup /\ ~tmp.exists
              /\ unsaved = 0)
    /\ [][\A i \in DOMAIN plants : RefusesWithoutSchedule(i)]_vars

\* the user has tried to mark the fern, which has no schedule, as fertilized
C12_Witness ==
    /\ NoScheduleOutcome
    /\ Len(plants) = 2
    /\ sel = plants[1].id
    /\ plants[1].fertilizing_interval = None

----------------------------------------------------------------------------
(* Properties of show_reminders *)

\* a reminder view is on the screen
RemindersShown == pc = "returned" /\ shown.view = "reminders"

\* the positions in the list of the plants the view on the screen was asked for
Viewed == IF shown.choice = 0 THEN DOMAIN plants ELSE {shown.choice}

\* the lines of the given kind the view on the screen prints under the name of
\* plant p
LinesOf(p, kind) ==
    UNION {{shown.blocks[b].lines[k] :
                k \in {k \in DOMAIN shown.blocks[b].lines :
                           shown.blocks[b].lines[k].kind = kind}} :
           b \in {b \in DOMAIN shown.blocks : shown.blocks[b].name = p.name}}

\* the day a date or date-time text names: the number its first part spells
DatePart(s) == CHOOSE d \in Calendar : ToString(d) = s[1]

\* the line states the status of a task that is due in daysUntil days
Classifies(line, daysUntil) ==
    /\ daysUntil < 0 => line.due = "OVERDUE by" /\ line.days = -daysUntil
    /\ daysUntil = 0 => line.due = "Due today!"
    /\ daysUntil > 0 => line.due = "Due in" /\ line.days = daysUntil

\* the lines of the given kind printed for plant p all state the status of a
\* task due in daysUntil days, and under the filters given there is such a line
StatusShown(p, kind, daysUntil, filters) ==
    /\ \A line \in LinesOf(p, kind) : Classifies(line, daysUntil)
    /\ shown.filter \in filters => LinesOf(p, kind) # {}

\* C13: for a plant that has a last date, the reminder states the status of
\* daysUntil = (day of the last date + interval) - today: overdue by -daysUntil
\* when it is negative, due today when it is 0, due in daysUntil days when it is
\* positive, for watering and for fertilizing; of a date-time text only the
\* day counts, whatever its time of day.
C13_DueStatus ==
    RemindersShown =>
        \A i \in Viewed :
            /\ plants[i].last_watered # None =>
                  StatusShown(plants[i], "Watering",
                              DatePart(plants[i].last_watered[1])
                              + plants[i].watering_interval - shown.today,
                              {"1", "2"})
            /\ (/\ plants[i].last_fertilized # None
                /\ plants[i].fertilizing_interval # None) =>
                  StatusShown(plants[i], "Fertilizing",
                              DatePart(plants[i].last_fertilized[1])
                              + plants[i].fertilizing_interval[1] - shown.today,
                              {"1", "3"})

\* a plant watered late on day 3, to be watered every day, is shown on day 5 as
\* overdue by one day
C13_Witness ==
    /\ RemindersShown
    /\ Len(plants) = 1
    /\ plants[1].last_watered = Some(DateTimeStr(3, 23))
    /\ plants[1].watering_interval = 1
    /\ shown.today = 5
    /\ LinesOf(plants[1], "Watering") =
          {[kind |-> "Watering", due |-> "OVERDUE by", days |-> 1]}

\* the watering line of a plant watered on 2024-01-01 (day 1), to be watered
\* every 7 days, states the status given, under a filter that prints it
OfJanuaryFirst(i, status) ==
    (/\ plants[i].watering_interval = 7
     /\ plants[i].last_watered # None
     /\ shown.filter \in {"1", "2"}) =>
        (DatePart(plants[i].last_watered[1]) = 1 =>
            LinesOf(plants[i], "Watering") = {status})

\* the watering lines the specification calls DueToday, Overdue(by) and
\* Upcoming(in)
DueToday == [kind |-> "Watering", due |-> "Due today!", days |-> 0]
Overdue(by) == [kind |-> "Watering", due |-> "OVERDUE by", days |-> by]
Upcoming(in) == [kind |-> "Watering", due |-> "Due in", days |-> in]

\* C14 as the specification states it: due today on 2024-01-08, overdue by 2
\* on 2024-01-10, due in 2 days on 2024-01-05.
C14_AsStated ==
    RemindersShown =>
        \A i \in Viewed :
            /\ shown.today = 8 => OfJanuaryFirst(i, DueToday)
            /\ shown.today = 10 => OfJanuaryFirst(i, Overdue(2))
            /\ shown.today = 5 => OfJanuaryFirst(i, Upcoming(2))

\* C14: for a plant with a watering interval of 7 days, last watered on
\* 2024-01-01, the reminder says due today on 2024-01-08, overdue by 2 days on
\* 2024-01-10 and due in 3 days on 2024-01-05.
C14_DueDatesOfJanuary ==
    RemindersShown =>
        \A i \in Viewed :
            /\ shown.today = 8 => OfJanuaryFirst(i, DueToday)
            /\ shown.today = 10 => OfJanuaryFirst(i, Overdue(2))
            /\ shown.today = 5 => OfJanuaryFirst(i, Upcoming(3))

\* the reminder of that plant on 2024-01-05
C14_Witness ==
    /\ RemindersShown
    /\ Len(plants) = 1
    /\ plants[1].watering_interval = 7
    /\ plants[1].last_watered = Some(DateStr(1))
    /\ shown.today = 5
    /\ shown.filter = "2"
    /\ shown.blocks[1].lines =
          <<[kind |-> "Watering", due |-> "Due in", days |-> 3]>>

\* C15: a plant whose last_watered is None is shown as due for watering today,
\* and a plant with a fertilizing schedule whose last_fertilized is None as due
\* for fertilizing today, for every interval and every day, also in the
\* overdue-only view; never as overdue or as due in some days.
C15_NeverCaredForIsDueToday ==
    RemindersShown =>
        \A i \in Viewed :
            /\ plants[i].last_watered = None =>
                  /\ LinesOf(plants[i], "Watering") \subseteq
                         {[kind |-> "Watering", due |-> "Due today!", days |-> 0]}
                  /\ shown.filter \in {"1", "2", "4"} =>
                         LinesOf(plants[i], "Watering") # {}
            /\ (/\ plants[i].last_fertilized = None
                /\ plants[i].fertilizing_interval # None) =>
                  /\ LinesOf(plants[i], "Fertilizing") \subseteq
                         {[kind |-> "Fertilizing", due |-> "Due today!",
                           days |-> 0]}
                  /\ shown.filter \in {"1", "3", "4"} =>
                         LinesOf(plants[i], "Fertilizing") # {}

\* a plant never watered and never fertilized, seen on day 40
C15_Witness ==
    /\ RemindersShown
    /\ Len(plants) = 1
    /\ plants[1].last_watered = None
    /\ plants[1].last_fertilized = None
    /\ plants[1].fertilizing_interval = Some(30)
    /\ shown.today = 40
    /\ shown.filter = "1"
    /\ Len(shown.blocks[1].lines) = 2

\* C16: for a plant whose fertilizing_interval is None the only fertilizing
\* line a reminder prints is "No fertilizing schedule", whatever
\* last_fertilized and the day are; the views of both kinds and of fertilizing
\* only print it, the overdue-only view prints no fertilizing line for the
\* plant.
C16_NoScheduleIsNotDue ==
    RemindersShown =>
        \A i \in Viewed :
            plants[i].fertilizing_interval = None =>
                /\ LinesOf(plants[i], "Fertilizing") \subseteq
                       {NoFertilizingSchedule}
                /\ shown.filter \in {"1", "3"} =>
                       LinesOf(plants[i], "Fertilizing") # {}
                /\ shown.filter = "4" => LinesOf(plants[i], "Fertilizing") = {}

\* the overdue-only view, on day 40, of a plant without a schedule that was
\* fertilized on day 1
C16_Witness ==
    /\ RemindersShown
    /\ Len(plants) = 1
    /\ plants[1].fertilizing_interval = None
    /\ plants[1].last_fertilized = Some(DateStr(1))
    /\ shown.today = 40
    /\ shown.filter = "4"

----------------------------------------------------------------------------
(* Properties of show_history *)

\* a history view is on the screen
HistoryShown == pc = "returned" /\ shown.view = "history"

\* the lines the view on the screen prints under the name of plant p
Printed(p) ==
    IF \E b \in DOMAIN shown.blocks : shown.blocks[b].name = p.name
    THEN shown.blocks[CHOOSE b \in DOMAIN shown.blocks :
                          shown.blocks[b].name = p.name].lines
    ELSE <<>>

\* the positions in history h of the entries a view of the given kind is to
\* list: all of them ("1"), the watered ones ("2"), the fertilized ones ("3")
Matching(h, kind) ==
    {k \in DOMAIN h : \/ kind = "1"
                      \/ kind = "2" /\ h[k].action = Watered
                      \/ kind = "3" /\ h[k].action = Fertilized}

\* lines lists the entries of h at the positions of M, each once, in the
\* order of h
ListsInOrder(lines, h, M) ==
    /\ Len(lines) = Cardinality(M)
    /\ \A k \in M :
          LET line == lines[Cardinality({j \in M : j <= k})]
          IN  /\ line.action = h[k].action
              /\ line.date = h[k].date
              /\ line.notes = h[k].notes

\* the history watered@d1, fertilized@d2, watered@d3
WateredFertilizedWatered ==
    <<ViewEntry(Watered, 1), ViewEntry(Fertilized, 2), ViewEntry(Watered, 3)>>

\* C17: the history view of a plant with a history lists exactly the entries
\* of the history whose action the filter asks for (every entry under filter
\* 1), each once and in the order they were appended; of the history
\* watered@d1, fertilized@d2, watered@d3 the watered-only view lists d1, d3.
C17_FilterHistory ==
    HistoryShown =>
        \A i \in Viewed :
            plants[i].history # <<>> =>
                /\ ListsInOrder(Printed(plants[i]), plants[i].history,
                                Matching(plants[i].history, shown.filter))
                /\ (/\ plants[i].history = WateredFertilizedWatered
                    /\ shown.filter = "2") =>
                       [k \in DOMAIN Printed(plants[i]) |->
                            Printed(plants[i])[k].date]
                           = <<DateTimeStr(1, 9), DateTimeStr(3, 9)>>

\* the watered-only view of a plant with that history
C17_Witness ==
    /\ HistoryShown
    /\ Len(plants) = 1
    /\ plants[1].history = WateredFertilizedWatered
    /\ shown.filter = "2"
    /\ Len(shown.blocks[1].lines) = 2

----------------------------------------------------------------------------
(* Properties of the main loop *)

\* load_plants is running or has just returned
Loading ==
    \/ pc = "start"
    \/ InSave /\ ret = "repair"
    \/ LoadReturned

\* C18: load_plants runs only when the process starts, before the menu is
\* first printed and before any operation; and save_plants is called after
\* every change the user makes (a plant added, removed, renamed, given another
\* watering or fertilizing interval, marked as watered or as fertilized)
\* before the next change begins: there is never more than one change made
\* since the last call of save_plants.
C18_SaveAfterEveryChange ==
    /\ Loading => ops = 0 /\ before = <<>>
    /\ unsaved <= 1

\* sequence s is the beginning of sequence t
IsPrefix(s, t) == Len(s) <= Len(t) /\ SubSeq(t, 1, Len(s)) = s

\* a plant of the list that is still in the list after the step has all its
\* earlier history, unchanged, at the beginning of its history
HistoriesKept ==
    \A i \in DOMAIN plants, j \in DOMAIN plants' :
        plants[i].id = plants'[j].id =>
            IsPrefix(plants[i].history, plants'[j].history)

\* C19: no step of the program (a plant added, renamed, given another
\* interval or no fertilizing schedule, marked as watered or fertilized,
\* another plant removed, a view printed, a save) removes, reorders or
\* changes an entry of the history of a plant that stays in the list: the
\* history it had before the step is a prefix of the one it has after it.
C19_HistoryAppendOnly == [][HistoriesKept]_vars

\* the ivy, which had one entry, has lost its fertilizing schedule and has
\* then been marked as watered
C19_Witness ==
    /\ pc = "returned"
    /\ out = "watered"
    /\ Len(plants) = 2
    /\ plants[2].fertilizing_interval = None
    /\ Len(plants[2].history) = 2
    /\ plants[2].history[1].action = Fertilized

\* C20: of a plant whose fertilizing schedule has been removed, the
\* fertilized-only history view prints no fertilized entry, also when the
\* plant was fertilized before, and the reminder prints no fertilizing status
\* but "No fertilizing schedule".
C20_NoFertilizingViews ==
    /\ (HistoryShown /\ shown.filter = "3") =>
          \A i \in Viewed :
              plants[i].fertilizing_interval = None =>
                  \A k \in DOMAIN Printed(plants[i]) :
                      Printed(plants[i])[k].action # Fertilized
    /\ RemindersShown =>
          \A i \in Viewed :
              plants[i].fertilizing_interval = None =>
                  LinesOf(plants[i], "Fertilizing") \subseteq
                      {NoFertilizingSchedule}

----------------------------------------------------------------------------
(* Properties of remove_plant *)

\* sequence s without its i-th item
Without(s, i) == [k \in 1..(Len(s) - 1) |-> IF k < i THEN s[k] ELSE s[k + 1]]

\* remove_plant has removed a plant and its save has returned
RemovalDone ==
    /\ pc \in {"returned", "remove_confirm"}
    /\ out = "removed"

\* the list is the list the menu showed without the plant object selected
SelectedIsGone ==
    \E i \in DOMAIN before : before[i].id = sel /\ plants = Without(before, i)

\* the plant selected is in the list and the user is asked to confirm
AskedToConfirm == pc = "remove_confirm" /\ IndexOfId(plants, sel) # 0

\* the search of line 278 finds the selected plant at the same place if the
\* plant has been given the name n since it was selected
FoundWhenRenamed(n) ==
    LET i == CHOOSE k \in DOMAIN plants : plants[k].id = sel
    IN  IndexOfId([plants EXCEPT ![i].name = n], sel) = i

\* a confirmation for a plant that is not in the list any more reports that
\* and changes neither the list nor a file
SecondConfirmationRefused ==
    (RemoveConfirmYes /\ IndexOfId(plants, sel) = 0) =>
        /\ out' = "Plant not found."
        /\ pc' = "returned"
        /\ <<plants, primary, backup, tmp>>' = <<plants, primary, backup, tmp>>

\* C21: remove_plant removes exactly the plant object the user selected, the
\* other plants staying as they were and in their order; the confirmation
\* finds that object by identity, so it would find it under any other name;
\* and a confirmation for a plant that is no longer in the list (a second "y"
\* to the same question) prints "Plant not found." and leaves the list and
\* the files as they are.
C21_RemoveByIdentity ==
    /\ [](RemovalDone => SelectedIsGone)
    /\ [](AskedToConfirm =>
             \A raw \in RawNames : Strip(raw) # <<>> => FoundWhenRenamed(Strip(raw)))
    /\ [][SecondConfirmationRefused]_vars

\* the second plant of two was removed and the user has confirmed again
C21_Witness ==
    /\ pc = "returned"
    /\ out = "Plant not found."
    /\ Len(before) = 2
    /\ plants = <<before[1]>>
    /\ sel = before[2].id

----------------------------------------------------------------------------
(* Operations that do not complete *)

\* an operation begun at the menu has refused its input
Refused ==
    out \in {"Name cannot be empty.", "A plant with that name already exists.",
             "does not have a fertilizing schedule"}

\* the save of an operation of the menu has raised
SaveFailed == pc = "raised" /\ ret \notin {"none", "repair"}

\* the user has left at a prompt of mark_watered or mark_fertilized
MarkInterrupted ==
    pc = "interrupted" /\ out \in {"mark_watered", "mark_fertilized"}

\* the operation begun at the menu has not completed
NotCompleted == SaveFailed \/ MarkInterrupted

\* plant p has a last date of each action only together with a history entry
\* of that action and that date
StampsHaveEntries(p) ==
    /\ p.last_watered # None =>
          \E k \in DOMAIN p.history :
              /\ p.history[k].action = Watered
              /\ Some(p.history[k].date) = p.last_watered
    /\ p.last_fertilized # None =>
          \E k \in DOMAIN p.history :
              /\ p.history[k].action = Fertilized
              /\ Some(p.history[k].date) = p.last_fertilized

\* C22: an operation that does not complete leaves nothing half done: when
\* it refuses its input (empty or duplicate name of a new plant, no
\* fertilizing schedule), when its save fails, or when the user leaves at a
\* prompt of mark_watered / mark_fertilized, the list in memory is the list
\* the menu showed and plants.json holds what it held then; in particular a
\* plant whose stamps were matched by history entries then has them matched
\* still.
C22_NothingHalfDone ==
    /\ (Refused \/ NotCompleted) => plants = before /\ primary = pre.primary
    /\ MarkInterrupted =>
          \A i \in DOMAIN plants :
              (i \in DOMAIN before /\ StampsHaveEntries(before[i])) =>
                  StampsHaveEntries(plants[i])

----------------------------------------------------------------------------
(* Properties of the idle program *)

\* C23: whenever the menu is on the screen, the user has made at least one
\* change and no call of the operating system has failed, plants.json holds
\* the document of the list in memory, and reads back as that list; this
\* holds after an edit session of several changes and one save as well.
C23_DiskAgreesAtMenu ==
    (pc = "menu" /\ ops >= 1 /\ faults = 0) =>
        /\ primary = File(Dump(plants))
        /\ Contents(ReadFile(primary).val) = Contents(plants)

\* back at the menu after one edit session that renamed the fern and changed
\* its watering interval: the backup is the file of before the session
C23_Witness ==
    /\ pc = "menu"
    /\ ops = 2
    /\ faults = 0
    /\ Len(plants) = 1
    /\ plants[1].name = <<"m">>
    /\ plants[1].watering_interval = 3
    /\ backup = File(Dump(<<Fern>>))

\* the last date of action act of plant p is None if its history has no entry
\* of that action, and the date of the latest such entry otherwise
InStep(p, act) ==
    LET last == IF act = Watered THEN p.last_watered ELSE p.last_fertilized
        K == {k \in DOMAIN p.history : p.history[k].action = act}
    IN  IF K = {} THEN last = None
        ELSE \E k \in K : /\ \A j \in K : j <= k
                           /\ last = Some(p.history[k].date)

\* an operation of the menu has returned
OperationReturned == pc = "returned" /\ ~LoadReturned

\* plant p was in the list the menu showed, and was not in step for act then
WasOutOfStep(p, act) ==
    \E j \in DOMAIN before : before[j].id = p.id /\ ~InStep(before[j], act)

\* C24: a new plant has no last dates and no history, and every operation that
\* returns leaves each plant that was in step in step: last_watered is None
\* if the history has no watered entry and the date of the latest watered
\* entry otherwise, and likewise last_fertilized, which an edit that removes
\* or sets the fertilizing schedule leaves alone.  So a plant that starts with
\* no last dates and no history is in step after every sequence of
\* operations.
C24_LastDatesInStep ==
    OperationReturned =>
        \A i \in DOMAIN plants :
            /\ WasOutOfStep(plants[i], Watered) \/ InStep(plants[i], Watered)
            /\ WasOutOfStep(plants[i], Fertilized)
                   \/ InStep(plants[i], Fertilized)

\* the ivy has been fertilized and has then lost its schedule
C24_Witness ==
    /\ OperationReturned
    /\ out = "edited"
    /\ Len(plants) = 2
    /\ plants[2].fertilizing_interval = None
    /\ plants[2].last_fertilized = Some(DateStr(Today))
    /\ Len(plants[2].history) = 2

====
